---- MODULE Spec2Model ----
(***************************************************************************)
(* uniquehist: deduplication of a shell history file.                      *)
(*                                                                         *)
(* The model follows src/uniquehist/__init__.py.  A file is a sequence of  *)
(* bytes; the file system maps a path to a file or to nothing.  Each       *)
(* invocation is a process that runs either main() as written, or the      *)
(* composition `with interprocess_lock(lock_file): do_the_magic(...)`      *)
(* that main() spells at lines 138-139.  Every access to the file system   *)
(* is a step of its own, so that invocations interleave exactly where      *)
(* the operating system lets them.                                         *)
(***************************************************************************)
EXTENDS Integers, Sequences, FiniteSets, TLC

\* ------------------------------------------------------------------ bounds
MaxHistLines == 2
MaxAppLines == 2
MaxFaults == 1
BigLen == 87

\* ------------------------------------------------------- program constants
\* The slack of the backup guard (line 64).
Slack == 80

\* ------------------------------------------------------------------- bytes
NL == "\n"
\* A byte that is no valid UTF-8: open(..., errors="ignore") drops it.
INVALID == "0xFF"
\* A filler byte of a large backup file.
FILL == "x"

\* ------------------------------------------------------------------- paths
HIST == "hist"
BKP == "bkp"
LockPaths == {"lock1", "lock2"}
\* Two append buffers named as mktemp names them, and one whose path lacks "tmp".
AppendPaths == {"tmpA", "tmpB", "addC"}
Paths == {HIST, BKP} \cup LockPaths \cup AppendPaths
\* No -A option.
None == "None"

Procs == {1, 2}

VARIABLES
    fs,             \* path -> [exists, data]: the file system
    locks,          \* path -> the process holding the fcntl lock on it, or 0
    pc,             \* process -> where it stands in the code
    args,           \* process -> [entry, lock_file, append_filename]
    history_lines,  \* process -> do_the_magic's history_lines (newest first)
    short,          \* process -> do_the_magic's short
    temp,           \* process -> the content of save_replace's temporary file
    stdout,         \* process -> what it printed
    exit_status,    \* process -> its exit status, -1 while it runs
    faults,         \* the I/O failures the environment may still inject
    pre,            \* process -> the file system as do_the_magic found it
    fs0             \* the file system before any invocation

vars == <<fs, locks, pc, args, history_lines, short, temp, stdout, exit_status,
          faults, pre, fs0>>

\* ------------------------------------------------------- pure functions
Absent == [exists |-> FALSE, data |-> <<>>]
File(bytes) == [exists |-> TRUE, data |-> bytes]

\* os.path.getsize: the number of bytes on disk.
getsize(f) == Len(f.data)

\* Decoding with errors="ignore" (lines 40, 48): invalid bytes vanish.
decode(bytes) == SelectSeq(bytes, LAMBDA b : b # INVALID)

\* f.readlines() (lines 42, 49): the text cut after every newline, each
\* line keeping its newline; a last line without one is a line too.
RECURSIVE splitlines(_, _, _)
splitlines(text, cur, acc) ==
    IF text = <<>>
    THEN IF cur = <<>> THEN acc ELSE Append(acc, cur)
    ELSE IF Head(text) = NL
         THEN splitlines(Tail(text), <<>>, Append(acc, Append(cur, NL)))
         ELSE splitlines(Tail(text), Append(cur, Head(text)), acc)

readlines(bytes) == splitlines(decode(bytes), <<>>, <<>>)

\* list.reverse() (lines 43, 50, 63).
reverse(s) == [i \in 1..Len(s) |-> s[Len(s) + 1 - i]]

\* str.rstrip() (line 58): trailing whitespace removed.
Whitespace == {" ", "\t", NL}
RECURSIVE rstrip(_)
rstrip(s) ==
    IF s # <<>> /\ s[Len(s)] \in Whitespace
    THEN rstrip(SubSeq(s, 1, Len(s) - 1))
    ELSE s

\* The loop of lines 54-61 over the newest-first lines: a value is kept the
\* first time it is met.
RECURSIVE keep_newest(_, _, _)
keep_newest_raw_key(lines, kept, setcheck) ==
    IF lines = <<>>
    THEN kept
    ELSE LET val == rstrip(Head(lines))
         IN  IF Head(lines) \notin setcheck
             THEN keep_newest(Tail(lines), Append(kept, val), setcheck \cup {Head(lines)})
             ELSE keep_newest(Tail(lines), kept, setcheck)
keep_newest_untrimmed(lines, kept, setcheck) ==
    IF lines = <<>>
    THEN kept
    ELSE LET val == rstrip(Head(lines))
         IN  IF val \notin setcheck
             THEN keep_newest(Tail(lines), Append(kept, Head(lines)), setcheck \cup {val})
             ELSE keep_newest(Tail(lines), kept, setcheck)
keep_newest(lines, kept, setcheck) ==
    IF lines = <<>>
    THEN kept
    ELSE LET val == rstrip(Head(lines))
         IN  IF val \notin setcheck
             THEN keep_newest(Tail(lines), Append(kept, val), setcheck \cup {val})
             ELSE keep_newest(Tail(lines), kept, setcheck)

\* Lines 54-63: short, in chronological order again.
dedup_keep_oldest(lines) == reverse(keep_newest(reverse(lines), <<>>, {}))
dedup(lines) == reverse(keep_newest(lines, <<>>, {}))

\* Line 51: the append buffer's lines come before (are newer than) the history's.
merge_lines_append_older(additionlines, lines) == lines \o additionlines
merge_lines(additionlines, lines) == additionlines \o lines

\* The writes of lines 66-67 and 75-76: every value followed by a newline.
RECURSIVE write_lines(_)
write_lines(values) ==
    IF values = <<>> THEN <<>>
    ELSE Head(values) \o <<NL>> \o write_lines(Tail(values))

\* Line 64: the backup is rewritten when it is smaller than history + 80.
guard_passes_at_threshold(backup, history) == getsize(backup) <= getsize(history) + Slack
guard_passes(backup, history) == getsize(backup) < getsize(history) + Slack

\* Line 47.
\* The assertion of line 47 left out.
has_tmp_unchecked(path) == TRUE
has_tmp(path) == path \in {"tmpA", "tmpB"}

\* A write of `bytes` at offset 0 of a file holding `old` (the copy of
\* shutil.copy, line 30, after the destination was opened for writing).
write_at_0(old, bytes) == bytes \o SubSeq(old, Len(bytes) + 1, Len(old))

\* ------------------------------------------------------------ initial states
\* The text of a history line, without its newline.
LinePool == {<<"a">>, <<"a", " ">>, <<"b">>, <<"c">>, <<" ">>}

\* The files of at most n newline-terminated lines.
RECURSIVE FilesUpTo(_)
FilesUpTo(n) ==
    IF n = 0 THEN {<<>>}
    ELSE LET S == FilesUpTo(n - 1)
         IN  S \cup {l \o <<NL>> \o s : l \in LinePool, s \in S}

\* A history with a duplicate and trailing blanks; one with an invalid byte
\* and no final newline.
EdgeHist == {<<"a", NL, "b", " ", NL, "a", NL>>, <<"b", NL, INVALID, "a">>}
Filler(n) == [i \in 1..n |-> IF i = n THEN NL ELSE FILL]
EdgeBackup == {Absent, File(<<>>), File(Filler(BigLen - 1)), File(Filler(BigLen))}

NoArgs == [entry |-> "off", lock_file |-> "lock1", append_filename |-> None]

InitLocals ==
    /\ locks = [f \in LockPaths \cup {HIST} |-> 0]
    /\ history_lines = [p \in Procs |-> <<>>]
    /\ short = [p \in Procs |-> <<>>]
    /\ temp = [p \in Procs |-> <<>>]
    /\ stdout = [p \in Procs |-> <<>>]
    /\ exit_status = [p \in Procs |-> -1]
    /\ pc = [p \in Procs |-> IF args[p].entry = "off" THEN "off" ELSE "start"]
    /\ pre = [p \in Procs |-> fs]
    /\ fs0 = fs

\* One invocation, no failure of the environment, every history and append
\* buffer of a few lines.
InitOne ==
    /\ faults = 0
    /\ \E h \in FilesUpTo(MaxHistLines), a \in FilesUpTo(MaxAppLines),
          given \in BOOLEAN, b \in {File(<<>>), File(Filler(BigLen))} :
        /\ given \/ a = <<>>
        /\ fs = [f \in Paths |->
                    CASE f = HIST -> File(h)
                      [] f = BKP -> b
                      [] f = "tmpA" -> IF given THEN File(a) ELSE Absent
                      [] OTHER -> Absent]
        /\ args = [p \in Procs |->
                    IF p = 1
                    THEN [entry |-> "with_lock", lock_file |-> "lock1",
                          append_filename |-> IF given THEN "tmpA" ELSE None]
                    ELSE NoArgs]
    /\ InitLocals

\* Two invocations on the same history file, with every way the environment
\* can be: a missing history or backup, a backup around the guard's
\* threshold, a failing disk, a shared or a separate lock file.
InitTwo ==
    /\ faults \in 0..MaxFaults
    /\ \E h \in {Absent} \cup {File(x) : x \in EdgeHist}, b \in EdgeBackup :
        fs = [f \in Paths |->
                CASE f = HIST -> h
                  [] f = BKP -> b
                  [] f = "tmpA" -> File(<<"a", NL, "c", " ", NL>>)
                  [] f = "tmpB" -> File(<<"b", NL, "d", NL>>)
                  [] f = "addC" -> File(<<"c", NL>>)
                  [] OTHER -> Absent]
    /\ \E e \in {"main", "with_lock"}, l \in LockPaths,
          a \in {None, "tmpA", "tmpB", "addC"} :
        args = [p \in Procs |->
                    IF p = 1
                    THEN [entry |-> "with_lock", lock_file |-> "lock1",
                          append_filename |-> "tmpA"]
                    ELSE [entry |-> e, lock_file |-> l, append_filename |-> a]]
    /\ InitLocals

Init == InitOne \/ InitTwo

\* ------------------------------------------------------------------ helpers
lock_file(p) == args[p].lock_file
append_filename(p) == args[p].append_filename

\* An exception (or SystemExit) leaves every `with` block of the process:
\* its files are closed, which drops its locks (lines 22, 40, 17), and the
\* interpreter exits with status 1. The label tells how the process ended:
\* "exited" by sys.exit(1), "raised" by an exception of the program's own
\* making, "io_failed" and "copy_failed" by a failure of the environment.
unwind_keeps_locks(p, label) ==
    /\ locks' = locks
    /\ pc' = [pc EXCEPT ![p] = label]
    /\ exit_status' = [exit_status EXCEPT ![p] = 1]
unwind(p, label) ==
    /\ locks' = [f \in DOMAIN locks |-> IF locks[f] = p THEN 0 ELSE locks[f]]
    /\ pc' = [pc EXCEPT ![p] = label]
    /\ exit_status' = [exit_status EXCEPT ![p] = 1]

\* fcntl.lockf(f, LOCK_EX) returns once no other process holds the lock.
lockf_returns_at_once(p, f) == TRUE
lockf_returns(p, f) == locks[f] \in {0, p}

\* ------------------------------------------------------- interprocess_lock
\* Line 17: open(lock_file, "a+") creates the lock file when it is missing.
interprocess_lock_open(p) ==
    /\ pc[p] = "start"
    /\ fs' = [fs EXCEPT ![lock_file(p)] = File(fs[lock_file(p)].data)]
    /\ pc' = [pc EXCEPT ![p] = "lockf"]
    /\ UNCHANGED <<locks, args, history_lines, short, temp, stdout, exit_status,
                   faults, pre, fs0>>

\* Line 18: fcntl.lockf(f, LOCK_EX) blocks until the lock is free.
interprocess_lock_lockf(p) ==
    /\ pc[p] = "lockf"
    /\ lockf_returns(p, lock_file(p))
    /\ locks' = [locks EXCEPT ![lock_file(p)] = p]
    /\ pc' = [pc EXCEPT ![p] = "locked"]
    /\ UNCHANGED <<fs, args, history_lines, short, temp, stdout, exit_status,
                   faults, pre, fs0>>

\* Lines 20-22, after do_the_magic returned: the lock is released and the
\* process ends with status 0.
interprocess_lock_release(p) ==
    /\ pc[p] = "returned"
    /\ locks' = [f \in DOMAIN locks |-> IF locks[f] = p THEN 0 ELSE locks[f]]
    /\ pc' = [pc EXCEPT ![p] = "done"]
    /\ exit_status' = [exit_status EXCEPT ![p] = 0]
    /\ UNCHANGED <<fs, args, history_lines, short, temp, stdout, faults, pre, fs0>>

\* -------------------------------------------------------------------- main
\* Lines 138-139 as written: the call names `backupfile`, which main never
\* binds (it binds backup_file, line 134). Evaluating the argument raises
\* NameError inside the lock; do_the_magic is not entered.
main_call(p) ==
    /\ pc[p] = "locked"
    /\ args[p].entry = "main"
    /\ unwind(p, "raised")
    /\ UNCHANGED <<fs, args, history_lines, short, temp, stdout, faults, pre, fs0>>

\* ------------------------------------------------------------ do_the_magic
\* Lines 33-37: a missing history file is reported and ends the process
\* with sys.exit(1).
\* Line 35: os.path.exists(historyfile).
history_exists_unchecked(p) == TRUE
history_exists(p) == fs[HIST].exists

do_the_magic_enter(p) ==
    /\ pc[p] = "locked"
    /\ args[p].entry = "with_lock"
    /\ pre' = [pre EXCEPT ![p] = fs]
    /\ IF history_exists(p)
       THEN /\ pc' = [pc EXCEPT ![p] = "open_history"]
            /\ UNCHANGED <<locks, exit_status, stdout>>
       ELSE /\ stdout' = [stdout EXCEPT ![p] = Append(@, [msg |-> "does not exist", n |-> 0])]
            /\ unwind(p, "exited")
    /\ UNCHANGED <<fs, args, history_lines, short, temp, faults, fs0>>

\* Lines 40-41: the history file is opened and locked.
open_history(p) ==
    /\ pc[p] = "open_history"
    /\ lockf_returns(p, HIST)
    /\ locks' = [locks EXCEPT ![HIST] = p]
    /\ pc' = [pc EXCEPT ![p] = "read_history"]
    /\ UNCHANGED <<fs, args, history_lines, short, temp, stdout, exit_status,
                   faults, pre, fs0>>

\* Lines 42-44.
read_history(p) ==
    /\ pc[p] = "read_history"
    /\ history_lines' = [history_lines EXCEPT ![p] = reverse(readlines(fs[HIST].data))]
    /\ stdout' = [stdout EXCEPT ![p] =
                    Append(@, [msg |-> "Uniquehist", n |-> Len(readlines(fs[HIST].data))])]
    /\ pc' = [pc EXCEPT ![p] = "check_append"]
    /\ UNCHANGED <<fs, locks, args, short, temp, exit_status, faults, pre, fs0>>

\* Lines 46-47: is there an append buffer, and does its path hold "tmp"?
check_append(p) ==
    /\ pc[p] = "check_append"
    /\ IF append_filename(p) # None /\ fs[append_filename(p)].exists
       THEN IF has_tmp(append_filename(p))
            THEN /\ pc' = [pc EXCEPT ![p] = "read_append"]
                 /\ UNCHANGED <<locks, exit_status>>
            ELSE unwind(p, "raised")
       ELSE /\ pc' = [pc EXCEPT ![p] = "dedup"]
            /\ UNCHANGED <<locks, exit_status>>
    /\ UNCHANGED <<fs, args, history_lines, short, temp, stdout, faults, pre, fs0>>

\* Lines 48-51: the buffer is opened (which fails when it is gone by now),
\* read, reversed and put before the history's lines.
read_append(p) ==
    /\ pc[p] = "read_append"
    /\ IF fs[append_filename(p)].exists
       THEN /\ history_lines' = [history_lines EXCEPT ![p] =
                    merge_lines(reverse(readlines(fs[append_filename(p)].data)), @)]
            /\ pc' = [pc EXCEPT ![p] = "unlink_append"]
            /\ UNCHANGED <<locks, exit_status>>
       ELSE /\ unwind(p, "raised")
            /\ UNCHANGED history_lines
    /\ UNCHANGED <<fs, args, short, temp, stdout, faults, pre, fs0>>

\* Line 52: os.unlink, which raises when the file is gone.
unlink_next_kept(p) == fs
unlink_next_history(p) == [fs EXCEPT ![HIST] = Absent]
unlink_next(p) == [fs EXCEPT ![append_filename(p)] = Absent]

unlink_append(p) ==
    /\ pc[p] = "unlink_append"
    /\ IF fs[append_filename(p)].exists
       THEN /\ fs' = unlink_next(p)
            /\ pc' = [pc EXCEPT ![p] = "dedup"]
            /\ UNCHANGED <<locks, exit_status>>
       ELSE /\ unwind(p, "raised")
            /\ UNCHANGED fs
    /\ UNCHANGED <<args, history_lines, short, temp, stdout, faults, pre, fs0>>

\* Lines 54-63.
keep_newest_unique(p) ==
    /\ pc[p] = "dedup"
    /\ short' = [short EXCEPT ![p] = dedup(history_lines[p])]
    /\ pc' = [pc EXCEPT ![p] = "guard"]
    /\ UNCHANGED <<fs, locks, args, history_lines, temp, stdout, exit_status,
                   faults, pre, fs0>>

\* Lines 64 and 68-72: the sizes are read (a missing backup raises); a
\* passing guard enters save_replace(backup); a failing one prints the
\* diagnostic and leaves the `with open(historyfile)` block, which closes
\* the history file and drops its lock.
rejected_next_return(p) == "returned"
rejected_next(p) == "hist_temp"

backup_guard(p) ==
    /\ pc[p] = "guard"
    /\ IF ~fs[BKP].exists
       THEN /\ unwind(p, "raised")
            /\ UNCHANGED stdout
       ELSE IF guard_passes(fs[BKP], fs[HIST])
            THEN /\ pc' = [pc EXCEPT ![p] = "bkp_temp"]
                 /\ UNCHANGED <<locks, exit_status, stdout>>
            ELSE /\ stdout' = [stdout EXCEPT ![p] = Append(@, [msg |-> "ERROR", n |-> 0])]
                 /\ locks' = [locks EXCEPT ![HIST] = 0]
                 /\ pc' = [pc EXCEPT ![p] = rejected_next(p)]
                 /\ UNCHANGED exit_status
    /\ UNCHANGED <<fs, args, history_lines, short, temp, faults, pre, fs0>>

\* ------------------------------------------------------------ save_replace
\* The destination of the save_replace the process is in.
\* Both save_replace calls given the history file.
destination_always_history(p) == HIST
destination(p) == IF pc[p] \in {"bkp_temp", "bkp_open", "bkp_write"} THEN BKP ELSE HIST

\* Lines 27-29 with the caller's writes (66-67, 75-76): the temporary file
\* receives the lines and is flushed.
save_replace_write(p) ==
    /\ pc[p] \in {"bkp_temp", "hist_temp"}
    /\ temp' = [temp EXCEPT ![p] = write_lines(short[p])]
    /\ pc' = [pc EXCEPT ![p] = IF pc[p] = "bkp_temp" THEN "bkp_open" ELSE "hist_open"]
    /\ UNCHANGED <<fs, locks, args, history_lines, short, stdout, exit_status,
                   faults, pre, fs0>>

\* Line 30, shutil.copy: the destination is opened for writing, which
\* creates it or cuts it to nothing.
copy_open_next(p) == [fs EXCEPT ![destination(p)] = File(<<>>)]

save_replace_copy_open(p) ==
    /\ pc[p] \in {"bkp_open", "hist_open"}
    /\ fs' = copy_open_next(p)
    /\ pc' = [pc EXCEPT ![p] = IF pc[p] = "bkp_open" THEN "bkp_write" ELSE "hist_write"]
    /\ UNCHANGED <<locks, args, history_lines, short, temp, stdout, exit_status,
                   faults, pre, fs0>>

\* Line 30, shutil.copy: the temporary file's bytes are written. After the
\* backup's copy the `with open(historyfile)` block ends (line 72), which
\* drops the lock on the history file; after the history's, do_the_magic
\* returns.
save_replace_copy_write(p) ==
    /\ pc[p] \in {"bkp_write", "hist_write"}
    /\ fs' = [fs EXCEPT ![destination(p)] = File(write_at_0(@.data, temp[p]))]
    /\ IF pc[p] = "bkp_write"
       THEN /\ locks' = [locks EXCEPT ![HIST] = 0]
            /\ pc' = [pc EXCEPT ![p] = "hist_temp"]
       ELSE /\ pc' = [pc EXCEPT ![p] = "returned"]
            /\ UNCHANGED locks
    /\ UNCHANGED <<args, history_lines, short, temp, stdout, exit_status,
                   faults, pre, fs0>>

\* ------------------------------------------------------------ I/O failures
\* An I/O call that changes nothing raises: opening the lock file (17),
\* reading the history (42) or the append buffer (49), writing the temporary
\* file (27-29, 67, 76), opening the destination of the copy (30).
FaultPoints == {"start", "read_history", "read_append", "bkp_temp", "hist_temp",
                "bkp_open", "hist_open"}

\* The files after the failing call: as before it. In save_replace the
\* exception surfaces at the yield (line 28), so that the flush and the
\* copy of lines 29-30 are not run.
after_io_error_publishes(p) ==
    IF pc[p] \in {"bkp_temp", "hist_temp"}
    THEN [fs EXCEPT ![destination(p)] = File(<<>>)]
    ELSE fs
after_io_error(p) == fs

io_error(p) ==
    /\ faults > 0
    /\ pc[p] \in FaultPoints
    /\ faults' = faults - 1
    /\ unwind(p, "io_failed")
    /\ fs' = after_io_error(p)
    /\ UNCHANGED <<args, history_lines, short, temp, stdout, pre, fs0>>

\* The copy of line 30 fails part-way (a full disk): a proper prefix of the
\* new content has been written.
copy_write_fails(p) ==
    /\ faults > 0
    /\ pc[p] \in {"bkp_write", "hist_write"}
    /\ \E k \in 0..(Len(temp[p]) - 1) :
        fs' = [fs EXCEPT ![destination(p)] = File(write_at_0(@.data, SubSeq(temp[p], 1, k)))]
    /\ faults' = faults - 1
    /\ unwind(p, "copy_failed")
    /\ UNCHANGED <<args, history_lines, short, temp, stdout, pre, fs0>>

\* ----------------------------------------------------------- specification
\* The steps p's own code takes.
run(p) ==
    \/ interprocess_lock_open(p)
    \/ interprocess_lock_lockf(p)
    \/ main_call(p)
    \/ do_the_magic_enter(p)
    \/ open_history(p)
    \/ read_history(p)
    \/ check_append(p)
    \/ read_append(p)
    \/ unlink_append(p)
    \/ keep_newest_unique(p)
    \/ backup_guard(p)
    \/ save_replace_write(p)
    \/ save_replace_copy_open(p)
    \/ save_replace_copy_write(p)
    \/ interprocess_lock_release(p)

Next ==
    \E p \in Procs :
        \/ run(p)
        \/ io_error(p)
        \/ copy_write_fails(p)

\* Invocations with any lock files.
Spec == Init /\ [][Next]_vars

\* Invocations that all name the same lock file, as main's default does for
\* one history file (line 136).
InitSameLock == Init /\ \A p, q \in Procs : lock_file(p) = lock_file(q)
SpecSameLock == InitSameLock /\ [][Next]_vars

\* Two invocations with one lock file, each scheduled again and again: a
\* process that can take its next step takes it, and a blocked lockf returns
\* once the lock is free. The environment need not fail.
InitTwoSameLock == InitTwo /\ \A p, q \in Procs : lock_file(p) = lock_file(q)
SpecFair == InitTwoSameLock /\ [][Next]_vars /\ \A p \in Procs : WF_vars(run(p))

\* ------------------------------------------------------------------ claims
\* What the claims speak of, said without the program's own functions: the
\* entries of a file are its lines, in order, each without its trailing
\* whitespace.
Range(s) == {s[i] : i \in DOMAIN s}
Nth(S, k) == CHOOSE e \in S : Cardinality({x \in S : x <= e}) = k
Text(bytes) == SelectSeq(bytes, LAMBDA b : b # INVALID)
LineEnds(t) == {i \in 1..Len(t) : t[i] = NL \/ i = Len(t)}
LinesOf(t) ==
    LET E == LineEnds(t)
    IN  [k \in 1..Cardinality(E) |->
            SubSeq(t, IF k = 1 THEN 1 ELSE Nth(E, k - 1) + 1, Nth(E, k))]
Trimmed(l) ==
    LET K == {k \in 1..Len(l) : l[k] \notin Whitespace}
    IN  IF K = {} THEN <<>> ELSE SubSeq(l, 1, Nth(K, Cardinality(K)))
Entries(bytes) == LET L == LinesOf(Text(bytes)) IN [k \in DOMAIN L |-> Trimmed(L[k])]

\* The run of p found an append buffer to merge.
Consumes(p) == append_filename(p) # None /\ pre[p][append_filename(p)].exists
\* The entries the run of p was given, oldest first: the history's, then
\* the append buffer's.
HistoryIn(p) == Entries(pre[p][HIST].data)
AppendIn(p) == IF Consumes(p) THEN Entries(pre[p][append_filename(p)].data) ELSE <<>>
ChronIn(p) == HistoryIn(p) \o AppendIn(p)
\* The place of the newest occurrence of v in c (0: none).
LastIn(c, v) ==
    LET K == {k \in 1..Len(c) : c[k] = v}
    IN  IF K = {} THEN 0 ELSE Nth(K, Cardinality(K))
\* c without every entry that occurs again later.
KeepLast(c) ==
    LET I == {i \in 1..Len(c) : \A j \in (i + 1)..Len(c) : c[j] # c[i]}
    IN  [k \in 1..Cardinality(I) |-> c[Nth(I, k)]]
\* do_the_magic has returned to its caller, which still holds the lock.
Returned(p) == pc[p] = "returned"

\* C1: after a run of do_the_magic that completes, the history file holds
\* every distinct trimmed line of the history and of the consumed append
\* buffer, and holds each exactly once.
C1_EachEntryOnce ==
    \A p \in Procs : Returned(p) =>
        LET out == Entries(fs[HIST].data)
        IN  /\ Range(out) = Range(ChronIn(p))
            /\ Cardinality(Range(out)) = Len(out)

\* A completed run whose input held an entry twice, once with a trailing blank.
C1_Witness ==
    \E p \in Procs :
        /\ Returned(p)
        /\ Consumes(p)
        /\ Len(ChronIn(p)) > Cardinality(Range(ChronIn(p)))
        /\ \E i \in 1..Len(pre[p][HIST].data) : pre[p][HIST].data[i] = " "
        /\ Len(Entries(fs[HIST].data)) >= 2

\* C2: two distinct entries of the output stand in the order of their newest
\* occurrences in the chronological input.
C2_OrderOfNewestOccurrence ==
    \A p \in Procs : Returned(p) =>
        LET out == Entries(fs[HIST].data)
            c == ChronIn(p)
        IN  \A i, j \in 1..Len(out) :
                out[i] # out[j] =>
                    (i < j <=> LastIn(c, out[i]) < LastIn(c, out[j]))

\* A completed run in which an entry's newest occurrence moved it behind an
\* entry that first came after it.
C2_Witness ==
    \E p \in Procs :
        /\ Returned(p)
        /\ LET c == ChronIn(p)
               out == Entries(fs[HIST].data)
           IN  /\ Len(c) >= 3
               /\ c[1] = c[Len(c)]
               /\ c[2] # c[1]
               /\ Len(out) >= 2
               /\ out[Len(out)] = c[1]

\* C3: the merged result is the history followed by the append buffer, each
\* entry kept only where it occurs last; history [a, b] with append buffer
\* [a, c] gives [b, a, c].
C3_AppendIsNewer ==
    \A p \in Procs : (Returned(p) /\ Consumes(p)) =>
        /\ fs[HIST].data = write_lines(KeepLast(HistoryIn(p) \o AppendIn(p)))
        /\ (/\ pre[p][HIST].data = <<"a", NL, "b", NL>>
            /\ pre[p][append_filename(p)].data = <<"a", NL, "c", NL>>)
           => fs[HIST].data = <<"b", NL, "a", NL, "c", NL>>

\* The example of the claim has run.
C3_Witness ==
    \E p \in Procs :
        /\ Returned(p)
        /\ Consumes(p)
        /\ pre[p][HIST].data = <<"a", NL, "b", NL>>
        /\ pre[p][append_filename(p)].data = <<"a", NL, "c", NL>>
        /\ fs[HIST].data = <<"b", NL, "a", NL, "c", NL>>

\* The labels inside the block interprocess_lock protects (lines 19-20).
Protected == {"locked", "open_history", "read_history", "check_append", "read_append",
              "unlink_append", "dedup", "guard", "bkp_temp", "bkp_open", "bkp_write",
              "hist_temp", "hist_open", "hist_write", "returned"}
\* From the read of the history file to the end of its replacement.
Merging == Protected \ {"locked", "open_history", "read_history", "returned"}

\* C4: two invocations that name the same lock file are never both inside
\* the protected block, and so never both between reading the history file
\* and finishing its replacement.
C4_MutualExclusion ==
    \A p, q \in Procs :
        (p # q /\ lock_file(p) = lock_file(q)) =>
            /\ ~(pc[p] \in Protected /\ pc[q] \in Protected)
            /\ ~(pc[p] \in Merging /\ pc[q] \in Merging)

\* One invocation replaces the history file while the other waits for the
\* same lock.
C4_Witness ==
    \E p, q \in Procs :
        /\ p # q
        /\ lock_file(p) = lock_file(q)
        /\ pc[p] = "hist_write"
        /\ pc[q] = "lockf"

\* Both invocations ran do_the_magic under the same lock, each with an
\* append buffer of its own that existed, and both ended with status 0.
BothCompleted ==
    /\ \A p \in Procs : pc[p] = "done" /\ exit_status[p] = 0
    /\ lock_file(1) = lock_file(2)
    /\ append_filename(1) # append_filename(2)
    /\ \A p \in Procs : append_filename(p) # None /\ fs0[append_filename(p)].exists

\* C5: after two concurrent invocations with one lock file and two append
\* buffers have both completed, the history file holds every distinct entry
\* of the original history and of both buffers exactly once.
C5_NoLostUpdate ==
    BothCompleted =>
        LET out == Entries(fs[HIST].data)
        IN  /\ Range(out) = Range(Entries(fs0[HIST].data))
                            \cup Range(Entries(fs0[append_filename(1)].data))
                            \cup Range(Entries(fs0[append_filename(2)].data))
            /\ Cardinality(Range(out)) = Len(out)

\* Both have completed, and each buffer brought an entry the history lacked.
C5_Witness ==
    /\ BothCompleted
    /\ \A p \in Procs :
        Range(Entries(fs0[append_filename(p)].data)) \ Range(Entries(fs0[HIST].data)) # {}

\* What p printed.
Printed(p) == {stdout[p][i].msg : i \in DOMAIN stdout[p]}
\* The content do_the_magic writes for the input the run of p was given.
Merged(p) == write_lines(KeepLast(ChronIn(p)))

\* C6: while save_replace publishes, and after a publish that failed
\* part-way, the destination holds its complete old content or the complete
\* new content.
C6_AtomicReplace ==
    \A p \in Procs : pc[p] \in {"bkp_write", "hist_write", "copy_failed"} =>
        \A dst \in {HIST, BKP} :
            fs[dst].data \in {pre[p][dst].data, write_lines(short[p])}

\* C7: the run overwrites the backup with the merged content when the
\* backup was smaller than the pre-merge history plus 80 bytes, and leaves
\* it as it was otherwise.
C7_BackupGuard ==
    \A p \in Procs : Returned(p) =>
        IF Len(pre[p][BKP].data) < Len(pre[p][HIST].data) + Slack
        THEN fs[BKP] = File(Merged(p))
        ELSE fs[BKP] = pre[p][BKP]

\* A backup one byte under the threshold has been overwritten.
C7_Witness ==
    \E p \in Procs :
        /\ Returned(p)
        /\ Len(pre[p][BKP].data) + 1 = Len(pre[p][HIST].data) + Slack
        /\ fs[BKP].data = Merged(p)
        /\ fs[BKP] # pre[p][BKP]

\* The guard of the run of p rejects.
Rejects(p) == Len(pre[p][BKP].data) >= Len(pre[p][HIST].data) + Slack

\* C8: a run whose guard rejects prints the diagnostic, leaves the backup
\* as it was, still replaces the history file with the merged content, and
\* ends with status 0: after the diagnostic nothing but a failing disk
\* ends it otherwise.
C8_RejectionIsNotFatal ==
    \A p \in Procs :
        /\ (Returned(p) /\ Rejects(p)) =>
                /\ "ERROR" \in Printed(p)
                /\ fs[BKP] = pre[p][BKP]
                /\ fs[HIST] = File(Merged(p))
        /\ "ERROR" \in Printed(p) =>
                /\ Rejects(p)
                /\ pc[p] \notin {"raised", "exited"}
                /\ exit_status[p] = (IF pc[p] = "done" THEN 0
                                     ELSE IF pc[p] \in {"io_failed", "copy_failed"} THEN 1
                                     ELSE -1)

\* A run whose guard rejected at the threshold has ended with status 0,
\* having changed the history file.
C8_Witness ==
    \E p \in Procs :
        /\ pc[p] = "done"
        /\ exit_status[p] = 0
        /\ "ERROR" \in Printed(p)
        /\ Len(pre[p][BKP].data) = Len(pre[p][HIST].data) + Slack
        /\ fs[BKP] = pre[p][BKP]
        /\ fs[HIST] = File(Merged(p))
        /\ fs[HIST] # pre[p][HIST]

\* C9: after a completed run that was given an existing append buffer the
\* buffer is gone, and a later run given the same path merges the history
\* alone.
C9_AppendConsumedOnce ==
    /\ \A p \in Procs :
        (pc[p] \in {"returned", "done"} /\ Consumes(p)) => ~fs[append_filename(p)].exists
    /\ \A p, q \in Procs :
        (/\ p # q
         /\ append_filename(p) = append_filename(q)
         /\ pc[p] = "done"
         /\ Consumes(p)
         /\ Returned(q))
        => /\ ~Consumes(q)
           /\ fs[HIST].data = write_lines(KeepLast(HistoryIn(q)))

\* A second run with the path of a buffer the first consumed has returned;
\* the buffer held an entry the original history lacked.
C9_Witness ==
    \E p, q \in Procs :
        /\ p # q
        /\ append_filename(p) = append_filename(q)
        /\ pc[p] = "done"
        /\ Consumes(p)
        /\ Returned(q)
        /\ ~fs[append_filename(p)].exists
        /\ Range(AppendIn(p)) \ Range(HistoryIn(p)) # {}
        /\ Range(AppendIn(p)) \subseteq Range(HistoryIn(q))

\* C10: main, given a history file and a backup that exist and no failure
\* of the environment, runs the merge under the lock and ends without
\* error, having replaced the backup and the history file.
C10_MainCompletes ==
    \A p \in Procs :
        (/\ args[p].entry = "main"
         /\ fs0[HIST].exists
         /\ fs0[BKP].exists
         /\ pc[p] \notin {"io_failed", "copy_failed"}
         /\ exit_status[p] # -1)
        => /\ pc[p] = "done"
           /\ exit_status[p] = 0

\* The labels of do_the_magic after its check of line 35.
PastCheck == Protected \ {"locked"}

\* C11: a run that finds no history file prints the diagnostic and exits
\* with status 1 having changed nothing: no history file is created, the
\* append buffers are neither read nor deleted, the backup is as it was;
\* and no run goes past the check without a history file.
C11_MissingHistory ==
    \A p \in Procs :
        /\ pc[p] = "exited" =>
            /\ ~pre[p][HIST].exists
            /\ "does not exist" \in Printed(p)
            /\ exit_status[p] = 1
            /\ history_lines[p] = <<>>
            /\ \A f \in {HIST, BKP} \cup AppendPaths : fs[f] = fs0[f]
        /\ pc[p] \in PastCheck => pre[p][HIST].exists
        /\ (args[p].entry = "with_lock" /\ ~fs0[HIST].exists /\ exit_status[p] # -1)
            => pc[p] \in {"exited", "io_failed"}

\* A run has exited on the missing history file, its append buffer and the
\* backup both there and untouched.
C11_Witness ==
    \E p \in Procs :
        /\ pc[p] = "exited"
        /\ exit_status[p] = 1
        /\ ~fs[HIST].exists
        /\ append_filename(p) # None
        /\ fs[append_filename(p)].exists
        /\ fs[BKP].exists
        /\ fs[BKP] = fs0[BKP]

\* The labels before the first save_replace.
BeforeReplace == {"start", "lockf", "locked", "open_history", "read_history",
                  "check_append", "read_append", "unlink_append", "dedup", "guard"}
\* The files as the run of p found them: as do_the_magic found them or,
\* before do_the_magic is entered, as they are.
RunStart(p) == IF pc[p] \in {"start", "lockf", "locked"} THEN fs ELSE pre[p]

\* C12: a run that fails before the replacement steps (the lock file cannot
\* be opened, the history file is missing, a read fails, the assertion on
\* the append path fails, the backup's size cannot be had) leaves the
\* history file and the backup file with their pre-run content.
C12_EarlyFailureChangesNothing ==
    [][\A p \in Procs :
        (pc[p] \in BeforeReplace /\ pc'[p] \in {"raised", "exited", "io_failed"}) =>
            /\ fs'[HIST] = RunStart(p)[HIST]
            /\ fs'[BKP] = RunStart(p)[BKP]]_vars

\* A run has failed on the size of a missing backup, after it read and
\* deleted its append buffer; the history file is as it was.
C12_Witness ==
    \E p \in Procs :
        /\ pc[p] = "raised"
        /\ args[p].entry = "with_lock"
        /\ ~pre[p][BKP].exists
        /\ ~fs[BKP].exists
        /\ Consumes(p)
        /\ ~fs[append_filename(p)].exists
        /\ fs[HIST] = pre[p][HIST]
        /\ Len(fs[HIST].data) > 0

\* C13: a failure while the new content is written into save_replace's
\* temporary file skips the publish step: the destination is byte for byte
\* what it was before the call.
C13_WriteTempFailure ==
    [][\A p \in Procs :
        (pc[p] \in {"bkp_temp", "hist_temp"} /\ pc'[p] = "io_failed") =>
            /\ fs'[destination(p)] = fs[destination(p)]
            /\ fs'[destination(p)] = pre[p][destination(p)]]_vars

\* A run has failed in the write-temp phase of its first save_replace:
\* there was content to write, none reached the temporary file, and the
\* backup and the history are as the run found them.
C13_Witness ==
    \E p \in Procs :
        /\ pc[p] = "io_failed"
        /\ short[p] # <<>>
        /\ temp[p] = <<>>
        /\ fs[BKP] = pre[p][BKP]
        /\ fs[HIST] = pre[p][HIST]
        /\ Len(fs[HIST].data) > 0

\* The labels of a process that has ended.
Ended == {"done", "exited", "raised", "io_failed", "copy_failed"}

\* C14: however the protected block is left (return, exception, the
\* sys.exit of the missing history), the process holds no lock afterwards,
\* and an invocation waiting for the lock file gets the lock.
C14_LockReleased ==
    /\ [](\A p \in Procs : pc[p] \in Ended => \A f \in DOMAIN locks : locks[f] # p)
    /\ \A q \in Procs : (pc[q] = "lockf") ~> (pc[q] = "locked")

\* An invocation holds the lock that another held when it left its block by
\* sys.exit or by an exception.
C14_Witness ==
    \E p, q \in Procs :
        /\ p # q
        /\ lock_file(p) = lock_file(q)
        /\ pc[p] \in {"raised", "exited"}
        /\ pc[q] = "locked"
        /\ locks[lock_file(q)] = q

\* The run of p has overwritten the backup.
Overwrote(p) == Returned(p) /\ fs[BKP] # pre[p][BKP]

\* C15 as claimed: a backup that a run overwrites is never replaced by
\* smaller content.
C15_BackupNeverShrinks ==
    \A p \in Procs : Overwrote(p) => Len(fs[BKP].data) >= Len(pre[p][BKP].data)

\* C15, amended: a backup that a run overwrites was smaller than the
\* pre-merge history plus 80 bytes, so that the new backup is smaller than
\* the old by less than 80 bytes plus the bytes the merge took off the
\* history.
C15_BackupShrinksWithinSlack ==
    \A p \in Procs : Overwrote(p) =>
        /\ Len(pre[p][BKP].data) < Len(pre[p][HIST].data) + Slack
        /\ Len(pre[p][BKP].data) - Len(fs[BKP].data)
            < Slack + (Len(pre[p][HIST].data) - Len(Merged(p)))

\* A run has replaced a backup by the merged content, which is smaller.
C15_Witness ==
    \E p \in Procs :
        /\ Overwrote(p)
        /\ fs[BKP].data = Merged(p)
        /\ Len(fs[BKP].data) < Len(pre[p][BKP].data)

\* C16: a history whose entries are all distinct, merged with no append
\* buffer, keeps its entries as they are; and a run with nothing to append
\* that follows a completed run leaves the history file byte for byte as it
\* found it.
C16_Idempotence ==
    /\ \A p \in Procs :
        (/\ Returned(p)
         /\ ~Consumes(p)
         /\ Cardinality(Range(HistoryIn(p))) = Len(HistoryIn(p)))
        => Entries(fs[HIST].data) = HistoryIn(p)
    /\ \A p, q \in Procs :
        (p # q /\ pc[p] = "done" /\ Returned(q) /\ ~Consumes(q))
        => fs[HIST] = pre[q][HIST]

\* A run without an append buffer has returned after a completed run that
\* had changed the history file, and has left the file as that run wrote it.
C16_Witness ==
    \E p, q \in Procs :
        /\ p # q
        /\ pc[p] = "done"
        /\ Returned(q)
        /\ append_filename(q) = None
        /\ pre[q][HIST] # fs0[HIST]
        /\ fs[HIST] = pre[q][HIST]
        /\ Len(Entries(fs[HIST].data)) >= 2

\* C17: two invocations on one history file that name different lock files,
\* each with an append buffer of its own, have both completed: the history
\* file holds every entry of the original history and of both buffers.
C17_InnerLockDefense ==
    (/\ \A p \in Procs : pc[p] = "done" /\ exit_status[p] = 0
     /\ lock_file(1) # lock_file(2)
     /\ append_filename(1) # append_filename(2)
     /\ \A p \in Procs : append_filename(p) # None /\ fs0[append_filename(p)].exists)
    => Range(Entries(fs0[HIST].data))
            \cup Range(Entries(fs0[append_filename(1)].data))
            \cup Range(Entries(fs0[append_filename(2)].data))
        \subseteq Range(Entries(fs[HIST].data))

\* The run of p has read its append buffer and deleted it.
Deleted(p) ==
    /\ Consumes(p)
    /\ ~fs[append_filename(p)].exists
    /\ Len(history_lines[p]) > Len(LinesOf(Text(pre[p][HIST].data)))

\* C18: when a run has ended, completed or not, and has deleted its append
\* buffer, every entry the buffer held is in the history file.
C18_NoAppendEntryLost ==
    \A p \in Procs :
        (pc[p] \in Ended /\ Deleted(p)) =>
            Range(AppendIn(p)) \subseteq Range(Entries(fs[HIST].data))

\* C19: after a completed run whose guard passed, the backup file and the
\* history file hold the same bytes, one trimmed entry on each
\* newline-terminated line.
C19_BackupEqualsHistory ==
    \A p \in Procs :
        (Returned(p) /\ ~Rejects(p)) =>
            /\ fs[BKP] = fs[HIST]
            /\ fs[BKP].exists
            /\ fs[BKP].data = write_lines(Entries(fs[BKP].data))

\* A completed run has made a backup that differed from the history equal
\* to it; the input had a line with a trailing blank and a buffer to merge.
C19_Witness ==
    \E p \in Procs :
        /\ Returned(p)
        /\ ~Rejects(p)
        /\ Consumes(p)
        /\ pre[p][BKP].data # pre[p][HIST].data
        /\ pre[p][BKP].data # fs[BKP].data
        /\ \E i \in 1..Len(pre[p][append_filename(p)].data) :
                pre[p][append_filename(p)].data[i] = " "
        /\ Len(fs[BKP].data) >= 4
        /\ fs[BKP].data = fs[HIST].data

\* C20: a run given the path of an existing append buffer that has no "tmp"
\* in it leaves the check of the path by the assertion error, with status 1,
\* having neither read nor deleted the buffer; history file, backup file and
\* buffer are as the run found them.
C20_AppendPathAssertion ==
    [][\A p \in Procs :
        (/\ pc[p] = "check_append"
         /\ pc'[p] # "check_append"
         /\ append_filename(p) = "addC"
         /\ fs[append_filename(p)].exists)
        => /\ pc'[p] = "raised"
           /\ exit_status'[p] = 1
           /\ history_lines'[p] = reverse(readlines(pre[p][HIST].data))
           /\ \A f \in {HIST, BKP, "addC"} : fs'[f] = pre[p][f]
           /\ fs'["addC"].exists]_vars

\* A run given such a path has ended by the assertion: the buffer, a backup
\* that exists and the history file are as they were at the start.
C20_Witness ==
    \E p \in Procs :
        /\ pc[p] = "raised"
        /\ args[p].entry = "with_lock"
        /\ append_filename(p) = "addC"
        /\ fs[BKP].exists
        /\ Len(fs[HIST].data) > 0
        /\ \A f \in {HIST, BKP, "addC"} : fs[f] = pre[p][f] /\ fs[f] = fs0[f]
        /\ fs["addC"].data = <<"c", NL>>

====
